---- MODULE Spec2Model ----
(***************************************************************************)
(* The inventory graph store of ansible/inventory/data.py (InventoryData): *)
(* the group and host registries, the Group and Host objects they refer    *)
(* to, the memoized groups dict, the canonical localhost and the           *)
(* reconciliation pass.                                                    *)
(*                                                                         *)
(* Group and Host objects live in a heap indexed by object ids, because    *)
(* the store's operations take and return object references: a removed     *)
(* object keeps its links and can be named again by a caller.              *)
(***************************************************************************)
EXTENDS Integers, Sequences, FiniteSets, TLC

\* ------------------------------------------------------------------ bounds
\* Number of Group objects ever constructed (the two built-in ones included).
MaxGroupObjs == 4
\* Number of Host objects ever constructed.
MaxHostObjs == 2
\* Number of calls made on the store after its construction.
MaxCalls == 5
\* Number of Host objects ever constructed in the runs about the localhost:
\* the implicit one and two registered under aliases.
MaxLocalHostObjs == 3

\* Python's None, for an object reference and for a plain value.
NoObj == 0
None == "None"

\* ------------------------------------------------------- names and inputs
\* Group names handed to add_group. "db-1" is a raw name that the Group
\* constructor canonicalizes; "h1" is also a host name (the two namespaces
\* may collide); "" is the empty name.
GroupArgs == {"all", "ungrouped", "db-1", "h1", ""}
\* Group names handed to add_host / add_child: callers refer to a group by
\* the canonical name add_group returned.
GroupRefs == {"all", "ungrouped", "db_1", "h1"}
\* Host names handed to add_host / add_child.
HostArgs == {"h1", "h2"}
\* The recognized aliases of the local machine (C.LOCALHOST).
LOCALHOST == {"127.0.0.1", "localhost", "::1"}
\* Names a reader may look up.
LookupArgs == {"localhost", "127.0.0.1", "h1"}
\* Host names handed to add_host in the runs about the localhost.
LocalHostArgs == {"localhost", "127.0.0.1", "h1"}

\* A name argument that is not a str (an int, say), written as a token so
\* that it can stand where names stand.
NotAString == "<int 7>"
\* isinstance(x, str)
IsStr(x) == x # NotAString /\ x # None
\* Python truthiness of an argument: None and the empty string are false.
Truthy(x) == x # None /\ x # ""

\* helpers.remove_trust(value): the same string without its trust tag; the
\* tag is no part of the string's value, which is all that names carry here.
remove_trust(value) == value

\* The name a Group object ends up with for a requested name.
CanonName(name) == IF name = "db-1" THEN "db_1" ELSE name

\* ------------------------------------------------------------------ state
VARIABLES
    groups,             \* self.groups: canonical group name -> Group object id
    hosts,              \* self.hosts: Host object ids in insertion order, keyed by name
    G,                  \* heap of Group objects: id -> [name, child_groups, parent_groups, hosts, vars]
    H,                  \* heap of Host objects: id -> [name, address, implicit, groups, vars]
    groups_dict_cache,  \* self._groups_dict_cache: group name -> set of host names
    localhost,          \* self.localhost: a Host object id or NoObj
    current_source,     \* self.current_source
    ncalls,             \* how many calls the store has served since construction
    returned_localhosts, \* the Host objects get_host has returned for a localhost alias so far
    last,               \* the operation that produced this state, with its outcome
    readers,            \* the read phase: each reader thread's position in its call and its result
    walk                \* a call followed step by step through its loop and its graph traversals

vars == <<groups, hosts, G, H, groups_dict_cache, localhost, current_source, ncalls,
          returned_localhosts, last, readers, walk>>

\* The store as one value, so that operations are functions on it.
Store == [groups |-> groups, hosts |-> hosts, G |-> G, H |-> H,
          cache |-> groups_dict_cache, localhost |-> localhost,
          current_source |-> current_source]

\* The reader threads of the read phase. A reader is idle until it calls,
\* then stands inside get_groups_dict ("fill", with the groups its loop has
\* still to visit) or inside _create_implicit_localhost ("create", past the
\* test of self.localhost), and at last has returned: keys is the key set
\* of the mapping it was handed at that moment, host the Host it was handed.
Readers == {"r1", "r2"}
IdleReader == [pc |-> "idle", todo |-> {}, op |-> "none", keys |-> {}, host |-> NoObj]

\* A call that is followed step by step: idle between calls, in the loop
\* over self.groups ("loop", todo the names still to visit) or inside the
\* traversal of the graph for the group `name` ("walk", seen the groups
\* visited so far, frontier the groups found and not yet visited).
IdleWalk == [pc |-> "idle", op |-> "none", todo |-> {}, name |-> None,
             seen |-> {}, frontier |-> {}]

\* The empty dict.
EmptyDict == [x \in {} |-> {}]

\* d with d[k] = v.
DictSet(d, k, v) == [x \in DOMAIN d \cup {k} |-> IF x = k THEN v ELSE d[x]]
\* d without key k.
DictDel(d, k) == [x \in DOMAIN d \ {k} |-> d[x]]

\* An operation's outcome: the store it leaves, the exception it raised
\* ("none" when it returned) and its return value.
Outcome(s, exc, ret) == [s |-> s, exc |-> exc, ret |-> ret]

\* ---------------------------------------------------------- entity model
\* Group(name)
NewGroup(name) == [name |-> CanonName(name), child_groups |-> {}, parent_groups |-> {},
                   hosts |-> {}, vars |-> EmptyDict]

\* Host(name, port)
NewHost(name) == [name |-> name, address |-> name, implicit |-> FALSE,
                  groups |-> {}, vars |-> EmptyDict]

\* Host.get_groups()
Host_get_groups(s, h) == s.H[h].groups

\* Host.remove_group(group): the back-reference set only.
Host_remove_group(s, h, g) == [s EXCEPT !.H[h].groups = @ \ {g}]

\* Host.set_variable / Group.set_variable
Host_set_variable(s, h, key, value) == [s EXCEPT !.H[h].vars = DictSet(@, key, value)]
Group_set_variable(s, g, key, value) == [s EXCEPT !.G[g].vars = DictSet(@, key, value)]

\* A slip in Group.add_host: the host's back-reference is not updated.
Group_add_host_one_sided(s, g, h) ==
    [s EXCEPT !.G[g].hosts = @ \cup {h}]

\* Group.add_host(host): the member set and, symmetrically, the host's back-reference.
Group_add_host(s, g, h) ==
    [s EXCEPT !.G[g].hosts = @ \cup {h}, !.H[h].groups = @ \cup {g}]

\* Group.remove_host(host)
Group_remove_host(s, g, h) ==
    [s EXCEPT !.G[g].hosts = @ \ {h}, !.H[h].groups = @ \ {g}]

\* Group.add_child_group(child): child into the children, self into the child's parents.
Group_add_child_group(s, g, c) ==
    [s EXCEPT !.G[g].child_groups = @ \cup {c}, !.G[c].parent_groups = @ \cup {g}]

RECURSIVE ParentClosure(_, _)
ParentClosure(heap, acc) ==
    LET nxt == acc \cup UNION {heap[x].parent_groups : x \in acc}
    IN IF nxt = acc THEN acc ELSE ParentClosure(heap, nxt)

\* Group.get_ancestors(): transitive closure over parent links.
Group_get_ancestors(s, g) == ParentClosure(s.G, s.G[g].parent_groups)

RECURSIVE ChildClosure(_, _)
ChildClosure(heap, acc) ==
    LET nxt == acc \cup UNION {heap[x].child_groups : x \in acc}
    IN IF nxt = acc THEN acc ELSE ChildClosure(heap, nxt)

\* Group.get_descendants()
Group_get_descendants(s, g) == ChildClosure(s.G, s.G[g].child_groups)

\* Group.get_hosts(): own hosts and those of every descendant group.
Group_get_hosts(s, g) == UNION {s.G[x].hosts : x \in {g} \cup Group_get_descendants(s, g)}

\* ------------------------------------------------------------- registries
\* The names registered in self.hosts.
HostNames(s) == {s.H[s.hosts[i]].name : i \in 1..Len(s.hosts)}

\* self.hosts[name]
HostOf(s, name) == s.hosts[CHOOSE i \in 1..Len(s.hosts) : s.H[s.hosts[i]].name = name]

\* del self.hosts[name]
HostsDel(s, name) == SelectSeq(s.hosts, LAMBDA h : s.H[h].name # name)

\* The Host objects in self.hosts.values() and the Group objects in self.groups.values().
RegisteredHosts(s) == {s.hosts[i] : i \in 1..Len(s.hosts)}
RegisteredGroups(s) == {s.groups[n] : n \in DOMAIN s.groups}

\* The object is the one its name is registered under.
HostRegistered(s, h) == h \in RegisteredHosts(s)
GroupRegistered(s, g) == g \in RegisteredGroups(s)

\* The id the next constructed object gets.
NextGroupId(s) == Cardinality(DOMAIN s.G) + 1
NextHostId(s) == Cardinality(DOMAIN s.H) + 1

\* --------------------------------------------------------------- helpers
\* basedir(source): the directory part of a source path.
basedir(source) == <<"basedir", source>>

\* A slip in combine_vars: a's values win over b's.
combine_vars_first_wins(a, b) ==
    [k \in DOMAIN a \cup DOMAIN b |-> IF k \in DOMAIN a THEN a[k] ELSE b[k]]

\* combine_vars(a, b): b's values win over a's.
combine_vars(a, b) ==
    [k \in DOMAIN a \cup DOMAIN b |-> IF k \in DOMAIN b THEN b[k] ELSE a[k]]

\* sys.executable
py_interp == "sys.executable"

\* ------------------------------------------------------- store operations
\* A slip in set_variable: the entity is looked up among the hosts first.
set_variable_hosts_first(s, entity, varname, value) ==
    IF entity \in HostNames(s)
    THEN Outcome(Host_set_variable(s, HostOf(s, entity), varname, value), "none", None)
    ELSE IF entity \in DOMAIN s.groups
    THEN Outcome(Group_set_variable(s, s.groups[entity], varname, value), "none", None)
    ELSE Outcome(s, "AnsibleError", None)

\* InventoryData.set_variable(entity, varname, value): groups first, then hosts.
set_variable(s, entity, varname, value) ==
    IF entity \in DOMAIN s.groups
    THEN Outcome(Group_set_variable(s, s.groups[entity], varname, value), "none", None)
    ELSE IF entity \in HostNames(s)
    THEN Outcome(Host_set_variable(s, HostOf(s, entity), varname, value), "none", None)
    ELSE Outcome(s, "AnsibleError", None)

\* A slip in add_group: the name as passed is returned, not the Group's own.
add_group_returns_raw(s, group) ==
    IF ~Truthy(group) \/ ~IsStr(group)
    THEN Outcome(s, "AnsibleError", None)
    ELSE IF group \in DOMAIN s.groups \/ CanonName(group) \in DOMAIN s.groups
    THEN Outcome(s, "none", group)
    ELSE Outcome([s EXCEPT !.G = DictSet(@, NextGroupId(s), NewGroup(group)),
                           !.groups = DictSet(@, CanonName(group), NextGroupId(s)),
                           !.cache = EmptyDict],
                 "none", group)

\* InventoryData.add_group(group)
add_group(s, group) ==
    IF ~Truthy(group)
    THEN Outcome(s, "AnsibleError", None)
    ELSE IF ~IsStr(group)
    THEN Outcome(s, "AnsibleError", None)
    ELSE IF group \notin DOMAIN s.groups
    THEN LET g == NextGroupId(s)
             name == CanonName(group)
         IN IF name \notin DOMAIN s.groups
            THEN Outcome([s EXCEPT !.G = DictSet(@, g, NewGroup(group)),
                                   !.groups = DictSet(@, name, g),
                                   !.cache = EmptyDict],
                         "none", name)
            ELSE Outcome(s, "none", name)
    ELSE Outcome(s, "none", group)

\* for host in self.hosts: h.remove_group(group)
RECURSIVE remove_group_hosts(_, _, _)
remove_group_hosts(s, g, i) ==
    IF i > Len(s.hosts) THEN s
    ELSE remove_group_hosts(Host_remove_group(s, s.hosts[i], g), g, i + 1)

\* A slip in remove_group: the memoized groups dict is not cleared.
remove_group_keeps_cache(s, g) ==
    LET name == s.G[g].name
        s1 == IF name \in DOMAIN s.groups
              THEN [s EXCEPT !.groups = DictDel(@, name)]
              ELSE s
    IN Outcome(remove_group_hosts(s1, g, 1), "none", None)

\* InventoryData.remove_group(group), group a Group object
remove_group(s, g) ==
    LET name == s.G[g].name
        s1 == IF name \in DOMAIN s.groups
              THEN [s EXCEPT !.groups = DictDel(@, name), !.cache = EmptyDict]
              ELSE s
    IN Outcome(remove_group_hosts(s1, g, 1), "none", None)

\* A slip in add_host: the last host registered under an alias becomes the
\* canonical localhost.
add_host_new_last_wins(s, host) ==
    LET h == NextHostId(s)
        s1 == [s EXCEPT !.H = DictSet(@, h, NewHost(host)), !.hosts = Append(@, h)]
        s2 == set_variable(set_variable(s1, host, "inventory_file", s1.current_source).s,
                           host, "inventory_dir",
                           IF s1.current_source # None THEN basedir(s1.current_source)
                                                       ELSE None).s
    IN IF host \in LOCALHOST THEN [s2 EXCEPT !.localhost = h] ELSE s2

\* The part of add_host that runs when the name is not registered yet.
add_host_new(s, host) ==
    LET h == NextHostId(s)
        s1 == [s EXCEPT !.H = DictSet(@, h, NewHost(host)), !.hosts = Append(@, h)]
        s2 == IF s1.current_source # None
              THEN set_variable(set_variable(s1, host, "inventory_file", s1.current_source).s,
                                host, "inventory_dir", basedir(s1.current_source)).s
              ELSE set_variable(set_variable(s1, host, "inventory_file", None).s,
                                host, "inventory_dir", None).s
    IN IF host \in LOCALHOST /\ s2.localhost = NoObj
       THEN [s2 EXCEPT !.localhost = HostOf(s2, host)]
       ELSE s2

\* A slip in add_host: a name that is registered already gets a new Host in
\* place of the old one.
add_host_replaces(s, name, group) ==
    IF ~Truthy(name) \/ ~IsStr(name)
    THEN Outcome(s, "AnsibleError", None)
    ELSE IF Truthy(group) /\ group \notin DOMAIN s.groups
    THEN Outcome(s, "AnsibleError", None)
    ELSE LET s1 == add_host_new([s EXCEPT !.hosts = HostsDel(s, name)], name)
             h == HostOf(s1, name)
         IN IF Truthy(group)
            THEN Outcome([Group_add_host(s1, s.groups[group], h) EXCEPT !.cache = EmptyDict],
                         "none", name)
            ELSE Outcome(s1, "none", name)

\* A slip in add_host: the host is registered before the group argument is
\* looked up.
add_host_registers_first(s, name, group) ==
    IF ~Truthy(name) \/ ~IsStr(name)
    THEN Outcome(s, "AnsibleError", None)
    ELSE LET s1 == IF name \notin HostNames(s) THEN add_host_new(s, name) ELSE s
             h == HostOf(s1, name)
         IN IF Truthy(group) /\ group \notin DOMAIN s.groups
            THEN Outcome(s1, "AnsibleError", None)
            ELSE IF Truthy(group)
            THEN Outcome([Group_add_host(s1, s.groups[group], h) EXCEPT !.cache = EmptyDict],
                         "none", name)
            ELSE Outcome(s1, "none", name)

\* InventoryData.add_host(host, group), port left at its default
add_host(s, name, group) ==
    LET host == remove_trust(name)
    IN IF ~Truthy(host)
       THEN Outcome(s, "AnsibleError", None)
       ELSE IF ~IsStr(host)
       THEN Outcome(s, "AnsibleError", None)
       ELSE IF Truthy(group) /\ group \notin DOMAIN s.groups
       THEN Outcome(s, "AnsibleError", None)
       ELSE LET g == IF Truthy(group) THEN s.groups[group] ELSE NoObj
                s1 == IF host \notin HostNames(s) THEN add_host_new(s, host) ELSE s
                h == HostOf(s1, host)
            IN IF g # NoObj
               THEN Outcome([Group_add_host(s1, g, h) EXCEPT !.cache = EmptyDict],
                            "none", host)
               ELSE Outcome(s1, "none", host)

\* A slip in remove_host: the registry entry goes, the groups' member sets
\* are left alone.
remove_host_registry_only(s, h) ==
    LET name == s.H[h].name
    IN Outcome(IF name \in HostNames(s) THEN [s EXCEPT !.hosts = HostsDel(s, name)] ELSE s,
               "none", None)

\* for group in self.groups: g.remove_host(host)
RECURSIVE remove_host_groups(_, _, _)
remove_host_groups(s, h, names) ==
    IF names = {} THEN s
    ELSE LET n == CHOOSE x \in names : TRUE
         IN remove_host_groups(Group_remove_host(s, s.groups[n], h), h, names \ {n})

\* InventoryData.remove_host(host), host a Host object
remove_host(s, h) ==
    LET name == s.H[h].name
        s1 == IF name \in HostNames(s) THEN [s EXCEPT !.hosts = HostsDel(s, name)] ELSE s
    IN Outcome(remove_host_groups(s1, h, DOMAIN s1.groups), "none", None)

\* A slip in add_child: a child that names nothing is passed over in silence.
add_child_ignores_unknown(s, group, child) ==
    IF group \notin DOMAIN s.groups
    THEN Outcome(s, "AnsibleError", None)
    ELSE IF child \in DOMAIN s.groups
    THEN Outcome([Group_add_child_group(s, s.groups[group], s.groups[child])
                     EXCEPT !.cache = EmptyDict],
                 "none", s.groups[child] \notin s.G[s.groups[group]].child_groups)
    ELSE IF child \in HostNames(s)
    THEN Outcome([Group_add_host(s, s.groups[group], HostOf(s, child))
                     EXCEPT !.cache = EmptyDict],
                 "none", HostOf(s, child) \notin s.G[s.groups[group]].hosts)
    ELSE Outcome(s, "none", FALSE)

\* A slip in add_child: the child is looked up among the hosts first.
add_child_hosts_first(s, group, child) ==
    IF group \notin DOMAIN s.groups
    THEN Outcome(s, "AnsibleError", None)
    ELSE IF child \in HostNames(s)
    THEN Outcome([Group_add_host(s, s.groups[group], HostOf(s, child))
                     EXCEPT !.cache = EmptyDict],
                 "none", HostOf(s, child) \notin s.G[s.groups[group]].hosts)
    ELSE IF child \in DOMAIN s.groups
    THEN Outcome([Group_add_child_group(s, s.groups[group], s.groups[child])
                     EXCEPT !.cache = EmptyDict],
                 "none", s.groups[child] \notin s.G[s.groups[group]].child_groups)
    ELSE Outcome(s, "AnsibleError", None)

\* InventoryData.add_child(group, child)
add_child(s, group, child) ==
    IF group \in DOMAIN s.groups
    THEN LET g == s.groups[group]
         IN IF child \in DOMAIN s.groups
            THEN LET c == s.groups[child]
                 IN Outcome([Group_add_child_group(s, g, c) EXCEPT !.cache = EmptyDict],
                            "none", c \notin s.G[g].child_groups)
            ELSE IF child \in HostNames(s)
            THEN LET h == HostOf(s, child)
                 IN Outcome([Group_add_host(s, g, h) EXCEPT !.cache = EmptyDict],
                            "none", h \notin s.G[g].hosts)
            ELSE Outcome(s, "AnsibleError", None)
    ELSE Outcome(s, "AnsibleError", None)

\* A slip in _create_implicit_localhost: the new host is not kept as
\* self.localhost.
create_implicit_localhost_forgets(s, pattern) ==
    IF s.localhost # NoObj
    THEN Outcome(s, "none", s.localhost)
    ELSE LET h == NextHostId(s)
         IN Outcome([s EXCEPT !.H = DictSet(@, h, [NewHost(pattern) EXCEPT
                                                      !.address = "127.0.0.1",
                                                      !.implicit = TRUE,
                                                      !.vars = DictSet(@, "ansible_connection", "local")])],
                    "none", h)

\* A slip in _create_implicit_localhost: the new implicit host is entered
\* into the host registry.
create_implicit_localhost_registers(s, pattern) ==
    IF s.localhost # NoObj
    THEN Outcome(s, "none", s.localhost)
    ELSE LET h == NextHostId(s)
             new_host == [NewHost(pattern) EXCEPT
                             !.address = "127.0.0.1",
                             !.implicit = TRUE,
                             !.vars = DictSet(DictSet(@, "ansible_python_interpreter", py_interp),
                                              "ansible_connection", "local")]
         IN Outcome([s EXCEPT !.H = DictSet(@, h, new_host), !.localhost = h,
                              !.hosts = Append(@, h)], "none", h)

\* InventoryData._create_implicit_localhost(pattern)
create_implicit_localhost(s, pattern) ==
    IF s.localhost # NoObj
    THEN Outcome(s, "none", s.localhost)
    ELSE LET h == NextHostId(s)
             new_host == [NewHost(pattern) EXCEPT
                             !.address = "127.0.0.1",
                             !.implicit = TRUE,
                             !.vars = DictSet(DictSet(@, "ansible_python_interpreter", py_interp),
                                              "ansible_connection", "local")]
         IN Outcome([s EXCEPT !.H = DictSet(@, h, new_host), !.localhost = h], "none", h)

\* A slip in get_host: a lookup miss on an alias is answered with a fresh
\* implicit host although a canonical localhost exists.
get_host_ignores_canonical(s, name) ==
    IF name \in HostNames(s)
    THEN Outcome(s, "none", HostOf(s, name))
    ELSE IF name \in LOCALHOST
    THEN create_implicit_localhost([s EXCEPT !.localhost = NoObj], name)
    ELSE Outcome(s, "none", NoObj)

\* A slip in get_host: every lookup miss is answered with the implicit
\* localhost.
get_host_any_miss(s, name) ==
    IF name \in HostNames(s)
    THEN Outcome(s, "none", HostOf(s, name))
    ELSE create_implicit_localhost(s, name)

\* InventoryData.get_host(hostname)
get_host(s, name) ==
    LET hostname == remove_trust(name)
    IN IF hostname \in HostNames(s)
       THEN Outcome(s, "none", HostOf(s, hostname))
       ELSE IF hostname \in LOCALHOST
       THEN create_implicit_localhost(s, hostname)
       ELSE Outcome(s, "none", NoObj)

\* The mapping get_groups_dict builds: every registered group's get_hosts(), by name.
BuildGroupsDict(s) ==
    [name \in DOMAIN s.groups |-> {s.H[h].name : h \in Group_get_hosts(s, s.groups[name])}]

\* InventoryData.get_groups_dict()
get_groups_dict(s) ==
    IF s.cache = EmptyDict
    THEN LET d == BuildGroupsDict(s) IN Outcome([s EXCEPT !.cache = d], "none", d)
    ELSE Outcome(s, "none", s.cache)

\* ---------------------------------------------------------- reconciliation
\* reconcile_inventory, the loop over self.groups: every group but 'all' that
\* has no ancestors becomes a child of 'all'. r is the Outcome so far; a
\* raised exception ends the pass where it stands.
RECURSIVE reconcile_groups(_, _)
reconcile_groups(r, names) ==
    IF names = {} \/ r.exc # "none"
    THEN r
    ELSE LET n == CHOOSE x \in names : TRUE
             g == r.s.groups[n]
         IN IF r.s.G[g].name # "all" /\ Group_get_ancestors(r.s, g) = {}
            THEN reconcile_groups(add_child(r.s, "all", r.s.G[g].name), names \ {n})
            ELSE reconcile_groups(r, names \ {n})

\* A slip in the set that is subtracted from a host's groups: 'all' left out,
\* so that membership of 'all' alone already counts as another group.
builtin_groups_without_all(s) == {s.groups["ungrouped"]}

\* {self.groups['all'], self.groups['ungrouped']}, the groups that do not
\* count as a host's own.
builtin_groups(s) == {s.groups["all"], s.groups["ungrouped"]}

\* reconcile_inventory, the body of the loop over self.hosts.values() for one
\* host. self.groups['ungrouped'] and self.groups['all'] are plain dict
\* lookups: a missing key raises KeyError.
reconcile_host(s, h) ==
    LET mygroups == Host_get_groups(s, h)
        hasAll == "all" \in DOMAIN s.groups
        r1 == IF "ungrouped" \notin DOMAIN s.groups
              THEN Outcome(s, "KeyError", None)
              ELSE IF s.groups["ungrouped"] \in mygroups
              THEN IF ~hasAll
                   THEN Outcome(s, "KeyError", None)
                   ELSE IF mygroups \ builtin_groups(s) # {}
                   THEN Outcome(Group_remove_host(s, s.groups["ungrouped"], h), "none", None)
                   ELSE Outcome(s, "none", None)
              ELSE IF ~s.H[h].implicit
              THEN LET length == Cardinality(mygroups)
                   IN IF length = 0
                      THEN add_child(s, "ungrouped", s.H[h].name)
                      ELSE IF length = 1
                      THEN IF ~hasAll
                           THEN Outcome(s, "KeyError", None)
                           ELSE IF s.groups["all"] \in mygroups
                           THEN add_child(s, "ungrouped", s.H[h].name)
                           ELSE Outcome(s, "none", None)
                      ELSE Outcome(s, "none", None)
              ELSE Outcome(s, "none", None)
    IN IF r1.exc = "none" /\ s.H[h].implicit
       THEN IF ~hasAll
            THEN Outcome(r1.s, "KeyError", None)
            ELSE Outcome([r1.s EXCEPT !.H[h].vars =
                              combine_vars(r1.s.G[r1.s.groups["all"]].vars, @)],
                         "none", None)
       ELSE r1

\* reconcile_inventory, the loop over self.hosts.values(), in the dict's order.
RECURSIVE reconcile_hosts(_, _)
reconcile_hosts(r, i) ==
    IF i > Len(r.s.hosts) \/ r.exc # "none"
    THEN r
    ELSE reconcile_hosts(reconcile_host(r.s, r.s.hosts[i]), i + 1)

\* InventoryData.reconcile_inventory()
reconcile_inventory(s) ==
    LET r0 == Outcome([s EXCEPT !.current_source = None], "none", None)
        r1 == reconcile_groups(r0, DOMAIN s.groups)
        r2 == reconcile_hosts(r1, 1)
    IN IF r2.exc = "none"
       THEN Outcome([r2.s EXCEPT !.cache = EmptyDict], "none", None)
       ELSE Outcome(r2.s, r2.exc, None)

\* ------------------------------------------------------------ construction
EmptyStore == [groups |-> EmptyDict, hosts |-> <<>>, G |-> EmptyDict, H |-> EmptyDict,
               cache |-> EmptyDict, localhost |-> NoObj, current_source |-> None]

\* InventoryData.__init__()
init_store ==
    add_child(add_group(add_group(EmptyStore, "all").s, "ungrouped").s,
              "all", "ungrouped").s

Init ==
    /\ groups = init_store.groups
    /\ hosts = init_store.hosts
    /\ G = init_store.G
    /\ H = init_store.H
    /\ groups_dict_cache = init_store.cache
    /\ localhost = init_store.localhost
    /\ current_source = init_store.current_source
    /\ ncalls = 0
    /\ returned_localhosts = {}
    /\ last = [op |-> "__init__", args |-> <<>>, registered |-> FALSE,
               created |-> FALSE, exc |-> "none", ret |-> None]
    /\ readers = [r \in Readers |-> IdleReader]
    /\ walk = IdleWalk

\* ---------------------------------------------------------------- actions
\* One call on the store: the store becomes the outcome's store and last
\* records the call, its outcome, whether the call constructed an object and,
\* for a call that is handed an object, whether that object was the
\* registered one when the call was made.
Apply(r, op, args, registered) ==
    /\ ncalls < MaxCalls
    /\ ncalls' = ncalls + 1
    /\ returned_localhosts' =
           IF op = "get_host" /\ args[1] \in LOCALHOST /\ r.ret # NoObj
           THEN returned_localhosts \cup {r.ret}
           ELSE returned_localhosts
    /\ groups' = r.s.groups
    /\ hosts' = r.s.hosts
    /\ G' = r.s.G
    /\ H' = r.s.H
    /\ groups_dict_cache' = r.s.cache
    /\ localhost' = r.s.localhost
    /\ current_source' = r.s.current_source
    /\ last' = [op |-> op, args |-> args, registered |-> registered,
                created |-> (DOMAIN r.s.G # DOMAIN G \/ DOMAIN r.s.H # DOMAIN H),
                exc |-> r.exc, ret |-> r.ret]
    /\ UNCHANGED <<readers, walk>>

\* The object bounds: a call may construct an object only while ids are left.
WithinBounds(r) ==
    /\ Cardinality(DOMAIN r.s.G) <= MaxGroupObjs
    /\ Cardinality(DOMAIN r.s.H) <= MaxHostObjs

AddGroupIn(names) ==
    \E group \in names :
        LET r == add_group(Store, group)
        IN WithinBounds(r) /\ Apply(r, "add_group", <<group>>, FALSE)

AddGroup == AddGroupIn(GroupArgs)

RemoveGroup ==
    \E g \in DOMAIN G :
        Apply(remove_group(Store, g), "remove_group", <<g>>, GroupRegistered(Store, g))

AddHostIn(names, groupnames, maxhosts) ==
    \E host \in names, group \in groupnames :
        LET r == add_host(Store, host, group)
        IN /\ Cardinality(DOMAIN r.s.H) <= maxhosts
           /\ Apply(r, "add_host", <<host, group>>, FALSE)

AddHost == AddHostIn(HostArgs, GroupRefs \cup {None}, MaxHostObjs)

RemoveHost ==
    \E h \in DOMAIN H :
        Apply(remove_host(Store, h), "remove_host", <<h>>, HostRegistered(Store, h))

AddChild ==
    \E group \in GroupRefs, child \in GroupRefs \cup HostArgs :
        Apply(add_child(Store, group, child), "add_child", <<group, child>>, FALSE)

GetGroupsDict ==
    Apply(get_groups_dict(Store), "get_groups_dict", <<>>, FALSE)

ReconcileInventory ==
    Apply(reconcile_inventory(Store), "reconcile_inventory", <<>>, FALSE)

\* A reader looks a host up.
GetHost ==
    \E hostname \in LookupArgs :
        LET r == get_host(Store, hostname)
        IN /\ Cardinality(DOMAIN r.s.H) <= MaxLocalHostObjs
           /\ Apply(r, "get_host", <<hostname>>, FALSE)

Next ==
    \/ AddGroup
    \/ RemoveGroup
    \/ AddHost
    \/ RemoveHost
    \/ AddChild
    \/ GetGroupsDict
    \/ ReconcileInventory

Spec == Init /\ [][Next]_vars

\* The runs about the localhost: hosts are registered under aliases of the
\* local machine and under another name, looked up and removed.
AddLocalHost == AddHostIn(LocalHostArgs, {None, "all"}, MaxLocalHostObjs)

NextLocal ==
    \/ AddLocalHost
    \/ GetHost
    \/ RemoveHost
    \/ ReconcileInventory

SpecLocal == Init /\ [][NextLocal]_vars

\* A loader that passes names as it read them, the invalid ones included,
\* and sets variables.
NameArgs == {"h1", "db-1", "", NotAString, None}
HostGroupArgs == {None, "", "all", "db_1", "h1"}
EntityArgs == {"all", "h1", "db_1"}
VarNames == {"ansible_user"}
VarValues == {"v1", "v2"}

AddNamedGroup == AddGroupIn(NameArgs)

AddNamedHost == AddHostIn(NameArgs, HostGroupArgs, MaxHostObjs)

SetVariable ==
    \E entity \in EntityArgs, varname \in VarNames, value \in VarValues :
        Apply(set_variable(Store, entity, varname, value),
              "set_variable", <<entity, varname, value>>, FALSE)

NextNames ==
    \/ AddNamedGroup
    \/ AddNamedHost
    \/ AddChild
    \/ SetVariable

SpecNames == Init /\ [][NextNames]_vars

\* A load with sources and variables followed by lookups: the loader names
\* the source it reads before it adds what the source holds.
Sources == {"hosts.ini", "dyn.yml"}
VarHostArgs == {"h1"}
VarGroupArgs == {"h1"}

\* inventory.current_source = source
SetCurrentSource ==
    \E source \in Sources :
        /\ source # current_source
        /\ Apply(Outcome([Store EXCEPT !.current_source = source], "none", None),
                 "current_source", <<source>>, FALSE)

AddVarGroup == AddGroupIn(VarGroupArgs)

AddVarHost == AddHostIn(VarHostArgs, {None, "all"}, MaxHostObjs)

NextVars ==
    \/ SetCurrentSource
    \/ AddVarGroup
    \/ AddVarHost
    \/ SetVariable
    \/ GetHost
    \/ GetGroupsDict
    \/ ReconcileInventory

SpecVars == Init /\ [][NextVars]_vars

\* The merge of reconcile_inventory for an implicit host it meets in
\* self.hosts: the pass is applied to stores that hold one such host, with
\* the host's and `all`'s variables drawn from the mappings below.
MergeKeys == {"ansible_user", "ansible_connection"}
VarMaps == UNION {[keys -> VarValues] : keys \in SUBSET MergeKeys}

merge_store(hostvars, allvars) ==
    LET h == NextHostId(init_store)
        all == init_store.groups["all"]
    IN [init_store EXCEPT
           !.H = DictSet(@, h, [NewHost("localhost") EXCEPT !.implicit = TRUE,
                                                            !.address = "127.0.0.1",
                                                            !.vars = hostvars]),
           !.hosts = Append(@, h),
           !.localhost = h,
           !.G[all].vars = allvars]

InitMerge ==
    \E hostvars \in VarMaps, allvars \in VarMaps :
        LET s == merge_store(hostvars, allvars)
        IN /\ groups = s.groups
           /\ hosts = s.hosts
           /\ G = s.G
           /\ H = s.H
           /\ groups_dict_cache = s.cache
           /\ localhost = s.localhost
           /\ current_source = s.current_source
           /\ ncalls = 0
           /\ returned_localhosts = {}
           /\ last = [op |-> "__init__", args |-> <<>>, registered |-> FALSE,
                      created |-> FALSE, exc |-> "none", ret |-> None]
           /\ readers = [r \in Readers |-> IdleReader]
           /\ walk = IdleWalk

NextMerge ==
    \/ SetVariable
    \/ ReconcileInventory

SpecMerge == InitMerge /\ [][NextMerge]_vars

\* A load phase followed by a read phase in which the reader threads call
\* get_groups_dict and get_host without a lock. The loader works only while
\* no reader has started; a reader's call is cut into the steps between
\* which another thread can run.
LoadPhase == \A r \in Readers : readers[r].pc = "idle"
ReaderAliases == {"localhost", "127.0.0.1"}

LoadGroup == LoadPhase /\ AddGroupIn({"db-1"})

LoadHost == LoadPhase /\ AddHostIn({"h1", "localhost"}, {None, "db_1"}, MaxHostObjs)

LoadReconcile == LoadPhase /\ ReconcileInventory

\* The group the loop over self.groups.items() visits next: dict order is
\* insertion order, which is the order of the ids.
NextInLoop(todo) == CHOOSE n \in todo : \A m \in todo : groups[n] <= groups[m]

UnchangedByReader ==
    UNCHANGED <<groups, hosts, G, current_source, ncalls, returned_localhosts, last, walk>>

\* get_groups_dict, the test `if not self._groups_dict_cache`: a filled
\* cache is returned as it stands, an empty one starts the loop.
ReaderTestCache(r) ==
    /\ readers[r].pc = "idle"
    /\ readers' = [readers EXCEPT ![r] =
           IF groups_dict_cache # EmptyDict
           THEN [@ EXCEPT !.pc = "returned", !.op = "get_groups_dict",
                          !.keys = DOMAIN groups_dict_cache]
           ELSE [@ EXCEPT !.pc = "fill", !.op = "get_groups_dict",
                          !.todo = DOMAIN groups]]
    /\ UNCHANGED <<groups_dict_cache, H, localhost>>
    /\ UnchangedByReader

\* get_groups_dict, one pass of the loop: one entry is put into the cache.
ReaderFillCache(r) ==
    /\ readers[r].pc = "fill"
    /\ readers[r].todo # {}
    /\ LET name == NextInLoop(readers[r].todo)
       IN /\ groups_dict_cache' = DictSet(groups_dict_cache, name, BuildGroupsDict(Store)[name])
          /\ readers' = [readers EXCEPT ![r].todo = @ \ {name}]
    /\ UNCHANGED <<H, localhost>>
    /\ UnchangedByReader

\* get_groups_dict, the return after the loop.
ReaderReturnCache(r) ==
    /\ readers[r].pc = "fill"
    /\ readers[r].todo = {}
    /\ readers' = [readers EXCEPT ![r] = [@ EXCEPT !.pc = "returned",
                                                   !.keys = DOMAIN groups_dict_cache]]
    /\ UNCHANGED <<groups_dict_cache, H, localhost>>
    /\ UnchangedByReader

\* get_host on an alias up to the test `if self.localhost` in
\* _create_implicit_localhost: a registered name and a set self.localhost
\* are returned, else the reader goes on to construct the host.
ReaderGetHost(r) ==
    \E hostname \in ReaderAliases :
        /\ readers[r].pc = "idle"
        /\ readers' = [readers EXCEPT ![r] =
               IF hostname \in HostNames(Store)
               THEN [@ EXCEPT !.pc = "returned", !.op = "get_host",
                              !.host = HostOf(Store, hostname)]
               ELSE IF localhost # NoObj
               THEN [@ EXCEPT !.pc = "returned", !.op = "get_host", !.host = localhost]
               ELSE [@ EXCEPT !.pc = "create", !.op = "get_host", !.todo = {hostname}]]
        /\ UNCHANGED <<groups_dict_cache, H, localhost>>
        /\ UnchangedByReader

\* _create_implicit_localhost, the branch that constructs the host, stores
\* it in self.localhost and returns it.
ReaderCreateLocalhost(r) ==
    /\ readers[r].pc = "create"
    /\ LET out == create_implicit_localhost([Store EXCEPT !.localhost = NoObj],
                                            CHOOSE n \in readers[r].todo : TRUE)
       IN /\ H' = out.s.H
          /\ localhost' = out.s.localhost
          /\ readers' = [readers EXCEPT ![r] = [@ EXCEPT !.pc = "returned", !.todo = {},
                                                         !.host = out.ret]]
    /\ UNCHANGED groups_dict_cache
    /\ UnchangedByReader

NextReaders ==
    \/ LoadGroup
    \/ LoadHost
    \/ LoadReconcile
    \/ \E r \in Readers : ReaderTestCache(r)
    \/ \E r \in Readers : ReaderFillCache(r)
    \/ \E r \in Readers : ReaderReturnCache(r)
    \/ \E r \in Readers : ReaderGetHost(r)
    \/ \E r \in Readers : ReaderCreateLocalhost(r)

SpecReaders == Init /\ [][NextReaders]_vars

\* reconcile_inventory and get_groups_dict followed step by step: the loop
\* over self.groups and, inside it, the traversal behind get_ancestors()
\* and get_hosts(). The loader, add_child between any two groups included,
\* works between the calls.
WalkIdle == walk.pc = "idle"

WalkLoadGroup == WalkIdle /\ AddGroupIn({"db-1"})

WalkLoadHost == WalkIdle /\ AddHostIn({"h1"}, {None, "db_1"}, MaxHostObjs)

WalkLoadChild == WalkIdle /\ AddChild

\* A slip in the traversal: groups seen before are taken up again.
walk_frontier_unguarded(frontier, seen, x, found) == (frontier \ {x}) \cup found

\* The traversal's guard: a group is visited once, whatever links lead to it.
walk_frontier(frontier, seen, x, found) == (frontier \cup found) \ (seen \cup {x})

\* The groups one link away in the direction of the traversal: parents for
\* get_ancestors(), children for get_descendants().
WalkLinks(x) ==
    IF walk.op = "reconcile_inventory" THEN G[x].parent_groups ELSE G[x].child_groups

WalkFrame == UNCHANGED <<groups, hosts, localhost, returned_localhosts, readers>>

WalkResult(op, exc, ret) ==
    [op |-> op, args |-> <<>>, registered |-> FALSE, created |-> FALSE,
     exc |-> exc, ret |-> ret]

\* reconcile_inventory is called: the source context is reset and the loop
\* over self.groups begins.
WalkStartReconcile ==
    /\ WalkIdle
    /\ ncalls < MaxCalls
    /\ ncalls' = ncalls + 1
    /\ current_source' = None
    /\ walk' = [IdleWalk EXCEPT !.pc = "loop", !.op = "reconcile_inventory",
                                !.todo = DOMAIN groups]
    /\ UNCHANGED <<G, H, groups_dict_cache, last>>
    /\ WalkFrame

\* get_groups_dict is called: a filled cache is returned, an empty one
\* starts the loop over self.groups.items().
WalkStartGroupsDict ==
    /\ WalkIdle
    /\ ncalls < MaxCalls
    /\ ncalls' = ncalls + 1
    /\ IF groups_dict_cache # EmptyDict
       THEN /\ walk' = walk
            /\ last' = WalkResult("get_groups_dict", "none", groups_dict_cache)
       ELSE /\ walk' = [IdleWalk EXCEPT !.pc = "loop", !.op = "get_groups_dict",
                                        !.todo = DOMAIN groups]
            /\ last' = last
    /\ UNCHANGED <<G, H, groups_dict_cache, current_source>>
    /\ WalkFrame

\* The loop takes the next group: reconcile_inventory passes over 'all' and
\* asks every other group for its ancestors, get_groups_dict asks every group
\* for its hosts.
WalkLoopNext ==
    /\ walk.pc = "loop"
    /\ walk.todo # {}
    /\ LET n == NextInLoop(walk.todo)
           g == groups[n]
       IN walk' = IF walk.op = "reconcile_inventory" /\ G[g].name = "all"
                  THEN [walk EXCEPT !.todo = @ \ {n}]
                  ELSE [walk EXCEPT !.pc = "walk", !.name = n, !.seen = {},
                                    !.frontier = WalkLinks(g)]
    /\ UNCHANGED <<G, H, groups_dict_cache, current_source, ncalls, last>>
    /\ WalkFrame

\* The traversal visits one group and takes up the groups linked to it.
WalkVisit ==
    /\ walk.pc = "walk"
    /\ \E x \in walk.frontier :
           walk' = [walk EXCEPT !.seen = @ \cup {x},
                                !.frontier = walk_frontier(@, walk.seen, x, WalkLinks(x))]
    /\ UNCHANGED <<G, H, groups_dict_cache, current_source, ncalls, last>>
    /\ WalkFrame

\* The traversal returns. reconcile_inventory makes a group without
\* ancestors a child of 'all' (a raise ends the pass); get_groups_dict puts
\* the names of the hosts of the group and of its descendants into the cache.
WalkReturn ==
    /\ walk.pc = "walk"
    /\ walk.frontier = {}
    /\ LET g == groups[walk.name]
           r == IF walk.op = "reconcile_inventory"
                THEN IF walk.seen = {}
                     THEN add_child(Store, "all", G[g].name)
                     ELSE Outcome(Store, "none", None)
                ELSE Outcome([Store EXCEPT !.cache =
                                  DictSet(@, walk.name,
                                          {H[h].name : h \in UNION {G[x].hosts :
                                                          x \in {g} \cup walk.seen}})],
                             "none", None)
       IN /\ G' = r.s.G
          /\ H' = r.s.H
          /\ groups_dict_cache' = r.s.cache
          /\ IF r.exc = "none"
             THEN /\ walk' = [walk EXCEPT !.pc = "loop", !.todo = @ \ {walk.name},
                                          !.name = None, !.seen = {}]
                  /\ last' = last
             ELSE /\ walk' = IdleWalk
                  /\ last' = WalkResult(walk.op, r.exc, None)
    /\ UNCHANGED <<current_source, ncalls>>
    /\ WalkFrame

\* The loop is over. reconcile_inventory runs its loop over the hosts and
\* clears the cache; get_groups_dict returns the cache.
WalkLoopEnd ==
    /\ walk.pc = "loop"
    /\ walk.todo = {}
    /\ LET r == IF walk.op = "reconcile_inventory"
                THEN LET r2 == reconcile_hosts(Outcome(Store, "none", None), 1)
                     IN IF r2.exc = "none"
                        THEN Outcome([r2.s EXCEPT !.cache = EmptyDict], "none", None)
                        ELSE r2
                ELSE Outcome(Store, "none", groups_dict_cache)
       IN /\ G' = r.s.G
          /\ H' = r.s.H
          /\ groups_dict_cache' = r.s.cache
          /\ last' = WalkResult(walk.op, r.exc, r.ret)
    /\ walk' = IdleWalk
    /\ UNCHANGED <<current_source, ncalls>>
    /\ WalkFrame

WalkStep ==
    \/ WalkLoopNext
    \/ WalkVisit
    \/ WalkReturn
    \/ WalkLoopEnd

NextWalk ==
    \/ WalkLoadGroup
    \/ WalkLoadHost
    \/ WalkLoadChild
    \/ WalkStartReconcile
    \/ WalkStartGroupsDict
    \/ WalkStep

SpecWalk == Init /\ [][NextWalk]_vars

\* A call that has begun keeps running: the interpreter does not stop
\* inside it.
SpecWalkFair == SpecWalk /\ WF_vars(WalkStep)

\* ------------------------------------------------- ansible_final.showrun
\* Text is a sequence of one-character strings. The pieces an
\* ansible-playbook recap is put together from here: the counter name in
\* lower and upper case, a zero and a non-zero count, and a blank.
MaxPieces == 2
Pieces == { <<"f", "a", "i", "l", "e", "d">>,
            <<"F", "A", "I", "L", "E", "D">>,
            <<"=", "0">>,
            <<"=", "1">>,
            <<" ">> }

RECURSIVE Texts(_)
Texts(n) ==
    IF n = 0 THEN {<< >>}
    ELSE Texts(n - 1) \cup {text \o piece : text \in Texts(n - 1), piece \in Pieces}

\* What the run can leave on standard output and on standard error.
Stdouts == Texts(MaxPieces)
Stderrs == { << >>,
             <<"=", "0">>,
             <<"F", "a", "i", "l", "e", "d", "=", "0">>,
             <<"f", "a", "i", "l", "e", "d", "=", "1">> }

\* str.lower() on the characters in use.
ToLower == ("F" :> "f") @@ ("A" :> "a") @@ ("I" :> "i") @@
           ("L" :> "l") @@ ("E" :> "e") @@ ("D" :> "d")
lower(text) ==
    [i \in 1..Len(text) |-> IF text[i] \in DOMAIN ToLower THEN ToLower[text[i]] ELSE text[i]]

\* needle in text
contains(needle, text) ==
    \E i \in 1..(Len(text) - Len(needle) + 1) :
        SubSeq(text, i, i + Len(needle) - 1) = needle

\* "failed=0"
failed_0 == <<"f", "a", "i", "l", "e", "d", "=", "0">>

\* out = result.stdout + "\n" + result.stderr
out_of(stdout, stderr) == stdout \o <<"\n">> \o stderr

\* A slip in showrun: the output is searched as it is, not lower-cased.
showrun_case_sensitive(stdout, stderr) ==
    IF contains(failed_0, out_of(stdout, stderr)) THEN "ok" ELSE "Error: Ansible"

\* showrun(), given what subprocess.run captured
showrun(stdout, stderr) ==
    IF contains(failed_0, lower(out_of(stdout, stderr))) THEN "ok" ELSE "Error: Ansible"

\* One showrun() call: the playbook run leaves some standard output and
\* standard error, recorded as the call's arguments.
ShowRun ==
    \E stdout \in Stdouts, stderr \in Stderrs :
        Apply(Outcome(Store, "none", showrun(stdout, stderr)), "showrun",
              <<stdout, stderr>>, FALSE)

NextRun == ShowRun

SpecRun == Init /\ [][NextRun]_vars

\* ----------------------------------------------------------------- claims
\* The names of the groups in a host's membership set.
GroupNamesOf(h) == {G[g].name : g \in H[h].groups}

\* C1: after any sequence of public operations, 'all' and 'ungrouped' are
\* both registered and 'ungrouped' is a child of 'all'.
C1_BuiltinGroupsAlwaysExist ==
    /\ "all" \in DOMAIN groups
    /\ "ungrouped" \in DOMAIN groups
    /\ groups["ungrouped"] \in G[groups["all"]].child_groups

\* C2: immediately after reconcile_inventory, every registered group other
\* than 'all' has 'all' among its ancestors.
C2_EveryGroupUnderAll ==
    last.op = "reconcile_inventory" =>
        \A n \in DOMAIN groups \ {"all"} :
            /\ "all" \in DOMAIN groups
            /\ groups["all"] \in Group_get_ancestors(Store, groups[n])

\* C3: immediately after reconcile_inventory, every registered host that is
\* not implicit and whose membership set before the pass was empty or exactly
\* {all} is a member of 'ungrouped'.
C3_LoneHostsInUngrouped ==
    [][last'.op = "reconcile_inventory" =>
        \A h \in RegisteredHosts(Store) :
            (~H[h].implicit /\ GroupNamesOf(h) \subseteq {"all"}) =>
                /\ "ungrouped" \in DOMAIN groups'
                /\ h \in G'[groups'["ungrouped"]].hosts]_vars

\* C4: immediately after reconcile_inventory, no registered host is a member
\* of 'ungrouped' while also being a member of some group other than 'all'
\* and 'ungrouped'.
C4_UngroupedIsExclusive ==
    last.op = "reconcile_inventory" =>
        \A h \in RegisteredHosts(Store) :
            ~ /\ "ungrouped" \in DOMAIN groups
              /\ h \in G[groups["ungrouped"]].hosts
              /\ GroupNamesOf(h) \ {"all", "ungrouped"} # {}

\* C5: reconcile_inventory is idempotent: from every reachable state, the
\* pass run twice leaves exactly the store that the pass run once leaves.
C5_ReconcileIdempotent ==
    reconcile_inventory(reconcile_inventory(Store).s).s = reconcile_inventory(Store).s

\* A completed pass has left a host in 'ungrouped' and a further group under 'all'.
C5_Witness ==
    /\ last.op = "reconcile_inventory"
    /\ last.exc = "none"
    /\ "all" \in DOMAIN groups
    /\ "ungrouped" \in DOMAIN groups
    /\ G[groups["ungrouped"]].hosts \cap RegisteredHosts(Store) # {}
    /\ \E n \in DOMAIN groups \ {"all", "ungrouped"} :
           groups["all"] \in G[groups[n]].parent_groups

\* C6: reconcile_inventory never fails, in every state reachable by public
\* operations.
C6_ReconcileNeverFails ==
    last.op = "reconcile_inventory" => last.exc = "none"

\* C7: in every reachable state get_groups_dict() returns the mapping from
\* exactly the registered group names to the names of the hosts in each
\* group's transitive closure, computed from the current state, and two
\* calls in a row return equal mappings.
C7_GroupsDictCoherent ==
    /\ get_groups_dict(Store).ret = BuildGroupsDict(Store)
    /\ get_groups_dict(get_groups_dict(Store).s).ret = get_groups_dict(Store).ret

\* C8: immediately after add_group creating a group, remove_group of a
\* registered group, add_host with a group argument, remove_host of a
\* registered host, a successful add_child and a completed
\* reconcile_inventory, the cache is empty.
C8_MutationClearsCache ==
    (\/ last.op = "add_group" /\ last.exc = "none" /\ last.created
     \/ last.op = "remove_group" /\ last.registered
     \/ last.op = "add_host" /\ last.exc = "none" /\ last.args[2] \notin {None, ""}
     \/ last.op = "remove_host" /\ last.registered
     \/ last.op = "add_child" /\ last.exc = "none"
     \/ last.op = "reconcile_inventory" /\ last.exc = "none")
    => groups_dict_cache = EmptyDict

C10_RemoveGroupRemovesEverywhere ==
    (last.op = "remove_group" /\ last.registered) =>
        /\ last.args[1] \notin RegisteredGroups(Store)
        /\ \A h \in RegisteredHosts(Store) : last.args[1] \notin H[h].groups
        /\ G[last.args[1]].name \notin DOMAIN get_groups_dict(Store).ret

\* A registered group that had a registered host as a member was removed.
C10_Witness ==
    /\ last.op = "remove_group"
    /\ last.registered
    /\ G[last.args[1]].hosts \cap RegisteredHosts(Store) # {}

\* The Host objects ever constructed under an alias of the local machine,
\* the implicit ones among all Host objects, and the first of the former.
AliasHosts == {h \in DOMAIN H : H[h].name \in LOCALHOST}
ImplicitHosts == {h \in DOMAIN H : H[h].implicit}
FirstAliasHost == CHOOSE h \in AliasHosts : \A k \in AliasHosts : h <= k

\* C11: across the store's lifetime all get_host calls on recognized
\* localhost aliases return one and the same Host instance, whichever
\* aliases are queried and also when an alias is registered with add_host
\* after the implicit localhost was created.
C11_OneLocalhostInstance ==
    Cardinality(returned_localhosts) <= 1

\* C12: when no host has been registered under any localhost alias,
\* get_host("localhost") returns a host with address 127.0.0.1, implicit
\* and with connection variable "local"; a repeated call returns the
\* identical instance and creates no second implicit host.
C12_ImplicitLocalhost ==
    (/\ last.op = "get_host"
     /\ last.args[1] = "localhost"
     /\ \A h \in AliasHosts : H[h].implicit) =>
        /\ last.ret # NoObj
        /\ H[last.ret].address = "127.0.0.1"
        /\ H[last.ret].implicit
        /\ "ansible_connection" \in DOMAIN H[last.ret].vars
        /\ H[last.ret].vars["ansible_connection"] = "local"
        /\ get_host(Store, "localhost").ret = last.ret
        /\ get_host(Store, "localhost").s.H = H
        /\ Cardinality(ImplicitHosts) = 1

\* get_host("localhost") was repeated with no alias ever registered and
\* constructed nothing the second time.
C12_Witness ==
    /\ last.op = "get_host"
    /\ last.args[1] = "localhost"
    /\ \A h \in AliasHosts : H[h].implicit
    /\ ~last.created
    /\ returned_localhosts = {last.ret}

C14_ExplicitLocalhostServesAliases ==
    (/\ last.op = "get_host"
     /\ last.args[1] \in LOCALHOST \ HostNames(Store)
     /\ AliasHosts # {}
     /\ ~H[FirstAliasHost].implicit) =>
        /\ last.ret = FirstAliasHost
        /\ ~last.created
        /\ ImplicitHosts = {}

\* An unregistered alias was looked up after another alias had been
\* registered as the first localhost.
C14_Witness ==
    /\ last.op = "get_host"
    /\ last.args[1] \in LOCALHOST \ HostNames(Store)
    /\ AliasHosts # {}
    /\ ~H[FirstAliasHost].implicit
    /\ H[FirstAliasHost].name # last.args[1]
    /\ FirstAliasHost \in RegisteredHosts(Store)

\* The links of the graph: every group's children, parents and members and
\* every host's groups.
Links(s) ==
    [G |-> [g \in DOMAIN s.G |-> [child_groups |-> s.G[g].child_groups,
                                  parent_groups |-> s.G[g].parent_groups,
                                  hosts |-> s.G[g].hosts]],
     H |-> [h \in DOMAIN s.H |-> s.H[h].groups]]

\* C15: add_group is idempotent: a second add_group(n) returns the same
\* canonical name as the first, the returned name is a key of the group
\* registry, the second call changes nothing (group count, Group entities,
\* links, cache), and the first call grows the group count by at most one.
C15_AddGroupIdempotent ==
    [][(last'.op = "add_group" /\ last'.exc = "none") =>
          LET again == add_group(Store', last'.args[1])
          IN /\ last'.ret \in DOMAIN groups'
             /\ again.exc = "none"
             /\ again.ret = last'.ret
             /\ again.s = Store'
             /\ last'.ret \in DOMAIN groups => Store' = Store
             /\ Cardinality(DOMAIN groups') <= Cardinality(DOMAIN groups) + 1]_vars

\* add_group was repeated with a name the Group constructor rewrites, while
\* the cache was filled.
C15_Witness ==
    /\ last.op = "add_group"
    /\ last.exc = "none"
    /\ last.args[1] # last.ret
    /\ ~last.created
    /\ last.ret \in DOMAIN groups
    /\ groups_dict_cache # EmptyDict

\* C16: add_host is idempotent on the name and additive on membership: a
\* repeated add_host(n, ...) resolves to the same Host entity, the host
\* count rises by exactly one in total, and after add_host(n, g1) and
\* add_host(n, g2) the host is a member of both g1 and g2.
C16_AddHostIdempotentAdditive ==
    [][(last'.op = "add_host" /\ last'.exc = "none") =>
          LET n == last'.args[1]
              g1 == last'.args[2]
              h == HostOf(Store', n)
          IN /\ Len(hosts') = Len(hosts) + (IF n \in HostNames(Store) THEN 0 ELSE 1)
             /\ n \in HostNames(Store) => h = HostOf(Store, n)
             /\ Truthy(g1) => groups'[g1] \in H'[h].groups /\ h \in G'[groups'[g1]].hosts
             /\ \A g2 \in DOMAIN groups' \cup {None} :
                    LET again == add_host(Store', n, g2)
                    IN /\ again.exc = "none"
                       /\ again.ret = last'.ret
                       /\ HostOf(again.s, n) = h
                       /\ again.s.hosts = hosts'
                       /\ DOMAIN again.s.H = DOMAIN H'
                       /\ H'[h].groups \subseteq again.s.H[h].groups
                       /\ g2 # None => /\ groups'[g2] \in again.s.H[h].groups
                                       /\ h \in again.s.G[groups'[g2]].hosts
                       /\ \A g \in H'[h].groups : h \in again.s.G[g].hosts]_vars

\* add_host was repeated for a registered name with another group, and the
\* host is in both groups.
C16_Witness ==
    /\ last.op = "add_host"
    /\ last.exc = "none"
    /\ ~last.created
    /\ Truthy(last.args[2])
    /\ \E g \in H[HostOf(Store, last.args[1])].groups :
           /\ g # groups[last.args[2]]
           /\ HostOf(Store, last.args[1]) \in G[g].hosts
    /\ HostOf(Store, last.args[1]) \in G[groups[last.args[2]]].hosts

\* C17: add_group and add_host fail exactly when the name is empty or not a
\* string or, for add_host, when a group argument is given that is not a
\* registered group; in all other cases they succeed.
C17_NameAndGroupValidation ==
    [][/\ last'.op = "add_group" =>
             (last'.exc # "none" <=> (last'.args[1] = "" \/ ~IsStr(last'.args[1])))
       /\ last'.op = "add_host" =>
             (last'.exc # "none" <=>
                  \/ last'.args[1] = ""
                  \/ ~IsStr(last'.args[1])
                  \/ (last'.args[2] # None /\ last'.args[2] \notin DOMAIN groups))]_vars

\* C18: add_child(group, child) fails when group is not a registered group,
\* whatever child is, and when child is neither a registered group nor a
\* registered host.
C18_AddChildUnknownFails ==
    [][(/\ last'.op = "add_child"
        /\ \/ last'.args[1] \notin DOMAIN groups
           \/ last'.args[2] \notin DOMAIN groups \cup HostNames(Store)) =>
          last'.exc = "AnsibleError"]_vars

\* add_child failed for a registered group and a child that names nothing.
C18_Witness ==
    /\ last.op = "add_child"
    /\ last.exc = "AnsibleError"
    /\ last.args[1] \in DOMAIN groups
    /\ last.args[2] \notin DOMAIN groups \cup HostNames(Store)

\* C19: failures are atomic: when add_group, add_host, add_child or
\* set_variable raises, the registries, memberships, links, variable
\* mappings, canonical localhost and cache are exactly as before the call.
C19_FailuresAtomic ==
    [][(/\ last'.op \in {"add_group", "add_host", "add_child", "set_variable"}
        /\ last'.exc # "none") =>
          Store' = Store]_vars

\* add_host failed for a new, valid host name because its group is unknown.
C19_Witness ==
    /\ last.op = "add_host"
    /\ last.exc # "none"
    /\ Truthy(last.args[1]) /\ IsStr(last.args[1])
    /\ last.args[1] \notin HostNames(Store)
    /\ Truthy(last.args[2]) /\ last.args[2] \notin DOMAIN groups

\* C20: add_child(group, child) resolves child against the groups first
\* (also when a host has the same name), else against the hosts; it
\* returns true exactly when the relation did not exist before, and an
\* immediately repeated call returns false and changes no relation.
C20_AddChildResolution ==
    [][(last'.op = "add_child" /\ last'.exc = "none") =>
          LET g == groups[last'.args[1]]
              child == last'.args[2]
              again == add_child(Store', last'.args[1], child)
          IN /\ IF child \in DOMAIN groups
                THEN LET c == groups[child]
                     IN /\ c \in G'[g].child_groups
                        /\ g \in G'[c].parent_groups
                        /\ last'.ret = (c \notin G[g].child_groups)
                        /\ Links(Store') =
                               Links(Group_add_child_group(Store, g, c))
                ELSE LET h == HostOf(Store, child)
                     IN /\ h \in G'[g].hosts
                        /\ g \in H'[h].groups
                        /\ last'.ret = (h \notin G[g].hosts)
                        /\ Links(Store') = Links(Group_add_host(Store, g, h))
             /\ again.exc = "none"
             /\ again.ret = FALSE
             /\ Links(again.s) = Links(Store')]_vars

\* add_child was repeated for a child name that both a group and a host
\* carry: the group was taken and the second call reports nothing new.
C20_Witness ==
    /\ last.op = "add_child"
    /\ last.exc = "none"
    /\ last.args[2] \in DOMAIN groups
    /\ last.args[2] \in HostNames(Store)
    /\ last.ret = FALSE
    /\ groups[last.args[2]] \in G[groups[last.args[1]]].child_groups
    /\ HostOf(Store, last.args[2]) \notin G[groups[last.args[1]]].hosts

\* C21: set_variable(entity, key, value) resolves entity against the groups
\* first and then the hosts, fails when neither matches, and on success
\* sets key to value in the resolved entity's variable mapping only: no
\* other entity's variables, no membership, no registry and not the cache
\* change.
C21_SetVariableResolution ==
    [][last'.op = "set_variable" =>
          LET entity == last'.args[1]
              key == last'.args[2]
              value == last'.args[3]
          IN IF entity \in DOMAIN groups
             THEN /\ last'.exc = "none"
                  /\ G' = [G EXCEPT ![groups[entity]].vars = DictSet(@, key, value)]
                  /\ G'[groups[entity]].vars[key] = value
                  /\ UNCHANGED <<groups, hosts, H, groups_dict_cache, localhost, current_source>>
             ELSE IF entity \in HostNames(Store)
             THEN /\ last'.exc = "none"
                  /\ H' = [H EXCEPT ![HostOf(Store, entity)].vars = DictSet(@, key, value)]
                  /\ H'[HostOf(Store, entity)].vars[key] = value
                  /\ UNCHANGED <<groups, hosts, G, groups_dict_cache, localhost, current_source>>
             ELSE /\ last'.exc = "AnsibleError"
                  /\ Store' = Store]_vars

\* set_variable overwrote a value on a name that a group and a host share,
\* while the cache was filled.
C21_Witness ==
    /\ last.op = "set_variable"
    /\ last.exc = "none"
    /\ last.args[1] \in DOMAIN groups
    /\ last.args[1] \in HostNames(Store)
    /\ last.args[3] = "v2"
    /\ G[groups[last.args[1]]].vars[last.args[2]] = "v2"
    /\ groups_dict_cache # EmptyDict

\* C22: when add_host(n) first creates host n, the host's own variables
\* record the source active at that moment (inventory_file is the current
\* source, or None when no source is active), also when a group named n is
\* registered already; a later add_host(n) under another active source
\* does not change the recorded value.
C22_Provenance ==
    [][(last'.op = "add_host" /\ last'.exc = "none") =>
          LET n == last'.args[1]
              h == HostOf(Store', n)
          IN IF n \notin HostNames(Store)
             THEN /\ "inventory_file" \in DOMAIN H'[h].vars
                  /\ H'[h].vars["inventory_file"] = current_source
             ELSE H'[h].vars = H[h].vars]_vars

\* C23: get_host(n) for a name that is neither registered nor a localhost
\* alias returns None without raising and without changing any state;
\* get_host(n) for a registered n returns the registered host.
C23_GetHostAbsent ==
    [][last'.op = "get_host" =>
          LET n == last'.args[1]
          IN /\ last'.exc = "none"
             /\ n \in HostNames(Store) => last'.ret = HostOf(Store, n)
             /\ (n \notin HostNames(Store) /\ n \notin LOCALHOST) =>
                    (last'.ret = NoObj /\ Store' = Store)]_vars

\* A name that is no alias was looked up and missed, with a host registered
\* under another name.
C23_Witness ==
    /\ last.op = "get_host"
    /\ last.args[1] \notin HostNames(Store) \cup LOCALHOST
    /\ last.ret = NoObj
    /\ hosts # <<>>

\* C25: if the implicit localhost has been created by get_host on an alias
\* and `all` has a variable k that the host did not set itself, then after
\* reconcile_inventory the implicit localhost's variables contain k with
\* `all`'s value.
C25_ImplicitInheritsAll ==
    [][(/\ last'.op = "reconcile_inventory"
        /\ last'.exc = "none"
        /\ localhost # NoObj
        /\ H[localhost].implicit
        /\ "all" \in DOMAIN groups) =>
          \A k \in DOMAIN G[groups["all"]].vars \ DOMAIN H[localhost].vars :
              /\ k \in DOMAIN H'[localhost].vars
              /\ H'[localhost].vars[k] = G[groups["all"]].vars[k]]_vars

Collisions(s) == DOMAIN s.groups \cap HostNames(s)

\* C26: names may collide across the namespaces: add_group(n) succeeds when
\* a host named n is registered and add_host(n) succeeds when a group named
\* n is registered, both entities then coexist, and reconcile_inventory on
\* such a state does not fail and removes neither entity.
C26_NameCollisionsTolerated ==
    [][/\ (last'.op = "add_group" /\ last'.args[1] \in HostNames(Store)) =>
              /\ last'.exc = "none"
              /\ last'.args[1] \in Collisions(Store')
              /\ hosts' = hosts
       /\ (/\ last'.op = "add_host"
           /\ last'.args[1] \in DOMAIN groups
           /\ (~Truthy(last'.args[2]) \/ last'.args[2] \in DOMAIN groups)) =>
              /\ last'.exc = "none"
              /\ last'.args[1] \in Collisions(Store')
              /\ groups' = groups
       /\ (last'.op = "reconcile_inventory" /\ Collisions(Store) # {}) =>
              /\ last'.exc = "none"
              /\ groups' = groups
              /\ hosts' = hosts]_vars

\* C27: once the load phase is complete and no mutation runs, when several
\* readers call get_groups_dict() concurrently, interleaved at the per-group
\* cache insertions, every call returns a mapping that has an entry for
\* every registered group.
C27_ConcurrentGroupsDict ==
    \A r \in Readers :
        (readers[r].pc = "returned" /\ readers[r].op = "get_groups_dict") =>
            readers[r].keys = DOMAIN groups

\* C28: once the load phase is complete with no localhost registered, when
\* several readers call get_host on localhost aliases concurrently, all of
\* them receive the same Host instance and exactly one implicit host is
\* created.
C28_ConcurrentImplicitLocalhost ==
    HostNames(Store) \cap LOCALHOST = {} =>
        /\ \A r1, r2 \in Readers :
               (/\ readers[r1].pc = "returned" /\ readers[r1].op = "get_host"
                /\ readers[r2].pc = "returned" /\ readers[r2].op = "get_host") =>
                   readers[r1].host = readers[r2].host
        /\ (\E r \in Readers : readers[r].pc = "returned" /\ readers[r].op = "get_host") =>
               Cardinality(ImplicitHosts) = 1

\* C29: removing an absent entity is a no-op: remove_group(g) for a group
\* not in the registry and remove_host(h) for a host not in the registry
\* do not raise and leave the registries, every membership set, every
\* parent/child link and the cache unchanged.
C29_RemoveAbsentIsNoOp ==
    [][(\/ /\ last'.op = "remove_group"
           /\ G[last'.args[1]].name \notin DOMAIN groups
        \/ /\ last'.op = "remove_host"
           /\ H[last'.args[1]].name \notin HostNames(Store)) =>
          /\ last'.exc = "none"
          /\ groups' = groups
          /\ hosts' = hosts
          /\ Links(Store') = Links(Store)
          /\ groups_dict_cache' = groups_dict_cache]_vars

\* C30: after any sequence of add_child calls between registered groups,
\* add_child(g, g) and add_child(b, a) after add_child(a, b) included, no
\* group is its own ancestor in the parent-link graph.
C30_AcyclicAncestry ==
    \A g \in RegisteredGroups(Store) : g \notin Group_get_ancestors(Store, g)

\* C31: after any sequence of operations, for every registered host h and
\* every registered group g, h is in g's directly-owned member set if and
\* only if g is in h's group-membership back-reference set.
C31_MembershipSymmetric ==
    \A h \in RegisteredHosts(Store), g \in RegisteredGroups(Store) :
        h \in G[g].hosts <=> g \in H[h].groups

\* A removal has run and a registered host is still a member of a
\* registered group.
C31_Witness ==
    /\ last.op \in {"remove_group", "remove_host"}
    /\ last.registered
    /\ \E h \in RegisteredHosts(Store), g \in RegisteredGroups(Store) :
           h \in G[g].hosts /\ g \in H[h].groups

\* Some registered group is its own ancestor.
HasCycle == \E g \in RegisteredGroups(Store) : g \in Group_get_ancestors(Store, g)

C33_NoDanglingReferences ==
    /\ \A g \in RegisteredGroups(Store) :
           /\ G[g].parent_groups \subseteq RegisteredGroups(Store)
           /\ G[g].child_groups \subseteq RegisteredGroups(Store)
           /\ G[g].hosts \subseteq RegisteredHosts(Store)
    /\ \A h \in RegisteredHosts(Store) :
           H[h].groups \subseteq RegisteredGroups(Store)

\* The names get_groups_dict should list under the registered group p: the
\* registered hosts that p reaches through registered groups only.
RegisteredLinks ==
    [x \in RegisteredGroups(Store) |->
        [child_groups |-> G[x].child_groups \cap RegisteredGroups(Store)]]
RegisteredReach(p) ==
    {H[h].name : h \in RegisteredHosts(Store) \cap
                       UNION {G[x].hosts : x \in {groups[p]} \cup
                                  ChildClosure(RegisteredLinks,
                                               RegisteredLinks[groups[p]].child_groups)}}

\* C34: after remove_group(g), the get_groups_dict() list of every remaining
\* registered group p contains only hosts that are registered and reachable
\* from p through registered groups: hosts reachable only through g no
\* longer appear under p, and a host removed by a later remove_host appears
\* under no group.
C34_RemovedGroupNotListed ==
    (/\ last.op = "get_groups_dict"
     /\ \E g \in DOMAIN G : ~GroupRegistered(Store, g)) =>
        \A p \in DOMAIN groups :
            /\ p \in DOMAIN last.ret
            /\ last.ret[p] \subseteq RegisteredReach(p)

\* C35: universal root membership: immediately after reconcile_inventory,
\* get_groups_dict()["all"] contains the name of every registered host.
C35_AllListsEveryHost ==
    [][(last'.op = "reconcile_inventory" /\ last'.exc = "none") =>
          LET d == get_groups_dict(Store').ret
          IN /\ "all" \in DOMAIN d
             /\ HostNames(Store') \subseteq d["all"]]_vars

\* C36: a removed host is never returned by a lookup: after remove_host(h)
\* no get_host(n) call returns the instance h until a host is added again
\* under n, also when h was the canonical localhost and n is a localhost
\* alias.  A host that add_host made is registered from its construction
\* until remove_host takes it out, so a returned host that is not implicit
\* must be registered.
C36_RemovedHostNotReturned ==
    (/\ last.op = "get_host"
     /\ last.ret # NoObj
     /\ ~H[last.ret].implicit) =>
        HostRegistered(Store, last.ret)

\* C37: get_host changes nothing but the canonical-localhost reference: for
\* every name it leaves the host registry, the group registry, every
\* membership set, every parent/child link and the cache unchanged; the
\* implicit localhost it creates is not in the host registry, so
\* reconcile_inventory does not visit it and get_groups_dict does not list it.
C37_GetHostFrame ==
    [][last'.op = "get_host" =>
          /\ hosts' = hosts
          /\ groups' = groups
          /\ groups_dict_cache' = groups_dict_cache
          /\ \A g \in DOMAIN G : G'[g] = G[g]
          /\ \A h \in DOMAIN H : H'[h] = H[h]
          /\ Links(Store').G = Links(Store).G
          /\ \A h \in DOMAIN H' \ DOMAIN H :
                /\ last'.ret = h
                /\ localhost' = h
                /\ H'[h].groups = {}
                /\ ~HostRegistered(Store', h)
                /\ reconcile_inventory(Store').s.H[h] = H'[h]
                /\ \A name \in DOMAIN groups' :
                       /\ h \notin Group_get_hosts(Store', groups'[name])
                       /\ H'[h].name \notin get_groups_dict(Store').ret[name]]_vars

\* A get_host call has created the implicit localhost while the cache was
\* filled and a registered host was a member of a group.
C37_Witness ==
    /\ last.op = "get_host"
    /\ last.created
    /\ groups_dict_cache # EmptyDict
    /\ \E h \in RegisteredHosts(Store) : H[h].groups # {}

\* The registered group `ungrouped`, as a set: empty when the name is not
\* registered.
UngroupedGroup == IF "ungrouped" \in DOMAIN groups THEN {groups["ungrouped"]} ELSE {}

\* C38: reconcile_inventory only repairs structure: it never adds or removes
\* an entry of the host or group registry, never changes the variables of a
\* group or of a non-implicit host, never removes a parent/child link, and
\* changes host membership only in `ungrouped`; besides that it resets the
\* active source context to none and clears the cache.
C38_ReconcileFrame ==
    [][last'.op = "reconcile_inventory" =>
          /\ hosts' = hosts
          /\ groups' = groups
          /\ DOMAIN G' = DOMAIN G
          /\ DOMAIN H' = DOMAIN H
          /\ \A g \in DOMAIN G :
                /\ G'[g].vars = G[g].vars
                /\ G[g].child_groups \subseteq G'[g].child_groups
                /\ G[g].parent_groups \subseteq G'[g].parent_groups
                /\ G'[g].hosts # G[g].hosts => g \in UngroupedGroup
          /\ \A h \in DOMAIN H :
                /\ ~H[h].implicit => H'[h].vars = H[h].vars
                /\ (H'[h].groups \ H[h].groups) \cup (H[h].groups \ H'[h].groups)
                       \subseteq UngroupedGroup
          /\ current_source' = None
          /\ groups_dict_cache' = EmptyDict]_vars

\* C39: removal affects only the entity passed: when a group (or host) was
\* removed and a new one was registered under the same name, remove_group
\* (or remove_host) called again with the old, already removed object
\* leaves the newly registered entity in the registry and leaves its
\* memberships intact.
C39_RemovalByIdentity ==
    [][/\ (/\ last'.op = "remove_group"
           /\ ~GroupRegistered(Store, last'.args[1])
           /\ G[last'.args[1]].name \in DOMAIN groups) =>
              LET new == groups[G[last'.args[1]].name]
              IN /\ groups' = groups
                 /\ G'[new] = G[new]
                 /\ \A h \in G[new].hosts : H'[h].groups = H[h].groups
       /\ (/\ last'.op = "remove_host"
           /\ ~HostRegistered(Store, last'.args[1])
           /\ H[last'.args[1]].name \in HostNames(Store)) =>
              LET new == HostOf(Store, H[last'.args[1]].name)
              IN /\ hosts' = hosts
                 /\ H'[new] = H[new]
                 /\ \A g \in H[new].groups : G'[g].hosts = G[g].hosts]_vars

\* The text holds "failed=0" at some position when case is ignored.
MentionsFailedZero(text) ==
    \E i \in 1..(Len(text) - Len(failed_0) + 1) :
        \A k \in 1..Len(failed_0) :
            \/ text[i + k - 1] = failed_0[k]
            \/ /\ text[i + k - 1] \in DOMAIN ToLower
               /\ ToLower[text[i + k - 1]] = failed_0[k]

\* C40: showrun() returns "ok" exactly when the standard output or the
\* standard error of the ansible-playbook run contains "failed=0", case
\* ignored (the two are combined with a line break, which no match can
\* span), and returns "Error: Ansible" otherwise; it returns one of these
\* two values for every run.
C40_ShowRunVerdict ==
    last.op = "showrun" =>
        /\ last.ret \in {"ok", "Error: Ansible"}
        /\ last.ret = "ok" <=>
               \/ MentionsFailedZero(last.args[1])
               \/ MentionsFailedZero(last.args[2])

\* A run whose recap is in upper case, with nothing on standard error, was
\* judged "ok".
C40_Witness ==
    /\ last.op = "showrun"
    /\ last.args = << <<"F", "A", "I", "L", "E", "D", "=", "0">>, << >> >>
    /\ last.ret = "ok"

====
